---- MODULE Spec2Model ----
(***************************************************************************)
(* Parcour backend: the parcel lifecycle (status transition table, agent   *)
(* assignment, status update) and the socket.io location service           *)
(* (presence maps, location reports, parcel tracking).                     *)
(*                                                                         *)
(* The database tables are variables; every HTTP handler is cut at its     *)
(* awaits (a database call is one atomic step, the synchronous code        *)
(* between two awaits belongs to the step before it).                      *)
(***************************************************************************)
EXTENDS Integers, Sequences, FiniteSets, TLC

(***************************************************************************)
(* Bounds of the model.                                                    *)
(***************************************************************************)
\* Assign transactions run in one behaviour (each takes one tick of the
\* database clock).
MaxAssigns == 3
\* Events emitted to one socket in one behaviour.
MaxOutbox == 1

(***************************************************************************)
(* Identities.  The user table is fixed: signup is not part of the model.  *)
(***************************************************************************)
Admins == {"a1"}
Agents == {"g1", "g2"}
Customers == {"c1", "c2"}
Users == Admins \cup Agents \cup Customers
\* An id that resolves to no row of the user table.
NoUser == "nobody"
\* A missing request field (undefined in the request body).
Missing == ""

ParcelIds == {"p1"}
\* HTTP requests in flight (handlers between their first and last await).
Slots == {1}

\* enum UserRole
UserRole == {"admin", "agent", "customer"}
\* enum ParcelStatus
ParcelStatus == {"pending", "assigned", "picked_up", "in_transit", "delivered", "failed"}

\* prisma.user.findUnique({ where: { id } }) reduced to the role column;
\* "none" stands for the null result.
userRoleOf(id) ==
    IF id \in Admins THEN "admin"
    ELSE IF id \in Agents THEN "agent"
    ELSE IF id \in Customers THEN "customer"
    ELSE "none"

(***************************************************************************)
(* State.                                                                  *)
(***************************************************************************)
VARIABLES
    parcel,            \* table Parcel: id -> row, or NoParcel
    parcelAssignment,  \* table ParcelAssignment: a set of rows
    parcelActivity,    \* table ParcelActivity: rows in insertion order
    clock,             \* the database clock behind new Date() / now()
    http,              \* slot -> the request whose handler is at an await
    response,          \* the request answered by the last step, if any
    agentLocation,     \* table AgentLocation: agent id -> row, or NoLocation
    socket,            \* socket id -> connection state and handshake identity
    connectedAgents,   \* LocationService.connectedAgents: agentId -> socketId
    agentSockets,      \* LocationService.agentSockets: socketId -> agentId
    rooms,             \* socket.io rooms joined: pairs <<socket id, room>>
    outbox,            \* socket id -> the events emitted to it, in order
    tasks,             \* socket handlers suspended at an await
    crashed            \* the process has exited (unhandledRejection)

lifecycleVars == <<parcel, parcelAssignment, parcelActivity, clock, http, response>>
presenceVars == <<agentLocation, socket, connectedAgents, agentSockets, rooms,
                  outbox, tasks, crashed>>
vars == <<lifecycleVars, presenceVars>>

NoParcel == [status |-> "none", customerId |-> NoUser]
Idle == [kind |-> "idle", pc |-> "done"]

\* assignment of a parcel as prisma's include: { assignment: true } returns it:
\* the rows whose parcelId is p (the unique index allows at most one).
assignmentsOf(p) == {a \in parcelAssignment : a.parcelId = p}


(***************************************************************************)
(* State Machine Engine.                                                   *)
(***************************************************************************)
\* The table with failed -> pending missing for the admin (one of the
\* divergent variants of the table).
getValidStatusTransitions_NoReopen(currentStatus, userRole) ==
    LET transitions ==
            [pending    |-> [admin |-> {"assigned"}],
             assigned   |-> [agent |-> {"picked_up"},
                             admin |-> {"picked_up", "pending"}],
             picked_up  |-> [agent |-> {"in_transit"},
                             admin |-> {"in_transit", "assigned"}],
             in_transit |-> [agent |-> {"delivered", "failed"},
                             admin |-> {"delivered", "failed", "picked_up"}],
             delivered  |-> [admin |-> {"in_transit"}],
             failed     |-> [admin |-> {"assigned"}]]
    IN  IF currentStatus \in DOMAIN transitions
           /\ userRole \in DOMAIN transitions[currentStatus]
        THEN transitions[currentStatus][userRole]
        ELSE {}

\* transitions[currentStatus]?.[userRole] || []
getValidStatusTransitions(currentStatus, userRole) ==
    LET transitions ==
            [pending    |-> [admin |-> {"assigned"}],
             assigned   |-> [agent |-> {"picked_up"},
                             admin |-> {"picked_up", "pending"}],
             picked_up  |-> [agent |-> {"in_transit"},
                             admin |-> {"in_transit", "assigned"}],
             in_transit |-> [agent |-> {"delivered", "failed"},
                             admin |-> {"delivered", "failed", "picked_up"}],
             delivered  |-> [admin |-> {"in_transit"}],
             failed     |-> [admin |-> {"pending", "assigned"}]]
    IN  IF currentStatus \in DOMAIN transitions
           /\ userRole \in DOMAIN transitions[currentStatus]
        THEN transitions[currentStatus][userRole]
        ELSE {}

(***************************************************************************)
(* Middleware.                                                             *)
(***************************************************************************)
authorize_Any(roles, role) == TRUE

\* authorize(roles): roles.includes(req.user.role)
authorize(roles, role) == role \in roles

\* Roles the routes pass to authorize().
AssignRouteRoles == {"admin"}
StatusRouteRoles == {"admin", "agent"}
CreateRouteRoles == {"customer"}

(***************************************************************************)
(* HTTP requests.                                                          *)
(***************************************************************************)
\* A handler's locals.  seenStatus, seenAgent, validTransitions are the
\* locals of updateParcelStatus; txStatus, prevAgent, failed and wrote are
\* history fields: the status and agent the transaction found, whether a
\* database call of the request threw, and the tables the request changed.
NewRequest(kind, actor, parcelId, agentId, status) ==
    [kind |-> kind, userId |-> actor, userRole |-> userRoleOf(actor),
     parcelId |-> parcelId, agentId |-> agentId, status |-> status,
     pc |-> "start", result |-> "none",
     seenStatus |-> "none", seenAgent |-> NoUser, validTransitions |-> {},
     txStatus |-> "none", prevAgent |-> NoUser,
     failed |-> FALSE, wrote |-> {}]

Respond(r, result) == [r EXCEPT !.pc = "done", !.result = result]

Free(s) == http[s] = Idle
\* Assign requests waiting for their transaction.
PendingTx == {s \in DOMAIN http : http[s].kind = "assign" /\ http[s].pc = "transaction"}
\* A request takes the first free slot (the slots are interchangeable).
FirstFree(s) == Free(s) /\ \A t \in DOMAIN http : t < s => ~Free(t)

agentOf(p) == IF assignmentsOf(p) = {} THEN NoUser
              ELSE (CHOOSE a \in assignmentsOf(p) : TRUE).agentId

(***************************************************************************)
(* createParcel: POST /parcel                                              *)
(***************************************************************************)
ParcelSeq == <<"p1", "p2">>
\* The ids the database has not handed out yet, in the order it will.
UnusedParcels ==
    {i \in DOMAIN ParcelSeq :
        ParcelSeq[i] \in DOMAIN parcel /\ parcel[ParcelSeq[i]] = NoParcel}

createParcel(actor) ==
    /\ authorize(CreateRouteRoles, userRoleOf(actor))
    /\ userRoleOf(actor) = "customer"
    /\ UnusedParcels # {}
    /\ LET i == CHOOSE i \in UnusedParcels : \A j \in UnusedParcels : i <= j
       IN  parcel' = [parcel EXCEPT ![ParcelSeq[i]] =
                         [status |-> "pending", customerId |-> actor]]
    /\ response' = Idle
    /\ UNCHANGED <<parcelAssignment, parcelActivity, clock, http>>
    /\ UNCHANGED presenceVars

(***************************************************************************)
(* assignAgentToParcel: POST /admin/assign/agent                           *)
(***************************************************************************)
upsertAssignment_Insert(rows, parcelId, agentId, by, at) ==
    rows \cup {[parcelId |-> parcelId, agentId |-> agentId,
                assignedBy |-> by, assignedAt |-> at]}

\* tx.parcelAssignment.upsert({ where: { parcelId }, update, create })
upsertAssignment(rows, parcelId, agentId, by, at) ==
    {a \in rows : a.parcelId # parcelId}
        \cup {[parcelId |-> parcelId, agentId |-> agentId,
               assignedBy |-> by, assignedAt |-> at]}

AssignableStatus_Any == ParcelStatus
AssignableStatus_OnlyAssigned == {"assigned"}

\* where: { id, status: { in: [pending, assigned] } }
AssignableStatus == {"pending", "assigned"}

isAgent_AnyUser(agentId) == userRoleOf(agentId) # "none"

\* !(!agent || agent.role !== UserRole.agent)
isAgent(agentId) == userRoleOf(agentId) = "agent"

\* The route's middleware and the handler up to the transaction: the role
\* check, the body check and the lookup of the agent.
AssignBegin(s, actor, parcelId, agentId) ==
    /\ clock + Cardinality(PendingTx) < MaxAssigns
    /\ FirstFree(s)
    /\ LET r == NewRequest("assign", actor, parcelId, agentId, Missing)
       IN  IF ~authorize(AssignRouteRoles, r.userRole)
               THEN response' = Respond(r, "forbidden") /\ UNCHANGED http
           ELSE IF parcelId = Missing \/ agentId = Missing
               THEN response' = Respond(r, "error") /\ UNCHANGED http
           ELSE IF ~isAgent(agentId)
               THEN response' = Respond(r, "notFound") /\ UNCHANGED http
           ELSE /\ http' = [http EXCEPT ![s] = [r EXCEPT !.pc = "transaction"]]
                /\ response' = Idle
    /\ UNCHANGED <<parcel, parcelAssignment, parcelActivity, clock>>
    /\ UNCHANGED presenceVars

\* prisma.$transaction: the upsert and the conditional update commit
\* together; either of them throwing rolls both back and the handler's
\* catch answers 500.  The update throws when no row matches its where.
TxFaults == {"none", "upsert", "update"}

AssignTransaction(s) ==
    /\ http[s].kind = "assign"
    /\ http[s].pc = "transaction"
    /\ \E fault \in TxFaults :
        LET r == http[s]
            p == r.parcelId
            found == [r EXCEPT !.txStatus = parcel[p].status,
                               !.prevAgent = agentOf(p)]
        IN  IF fault = "none" /\ parcel[p].status \in AssignableStatus
            THEN /\ parcelAssignment' =
                        upsertAssignment(parcelAssignment, p, r.agentId, r.userId, clock)
                 /\ parcel' = [parcel EXCEPT ![p].status = "assigned"]
                 /\ http' = [http EXCEPT ![s] =
                        [found EXCEPT !.pc = "activity",
                                      !.wrote = {"assignment", "status"}]]
                 /\ response' = Idle
            ELSE /\ http' = [http EXCEPT ![s] = Idle]
                 /\ response' = Respond([found EXCEPT !.failed = (fault # "none")],
                                         "serverError")
                 /\ UNCHANGED <<parcel, parcelAssignment>>
    /\ clock' = clock + 1
    /\ UNCHANGED parcelActivity
    /\ UNCHANGED presenceVars

\* prisma.parcelActivity.create, after the transaction has committed.
AssignActivity(s) ==
    /\ http[s].kind = "assign"
    /\ http[s].pc = "activity"
    /\ \E ok \in BOOLEAN :
        LET r == http[s]
        IN  IF ok
            THEN /\ parcelActivity' = Append(parcelActivity,
                        [parcelId |-> r.parcelId, action |-> "assigned",
                         activityBy |-> r.userId, role |-> "admin"])
                 /\ response' = Respond([r EXCEPT !.wrote = @ \cup {"activity"}],
                                         "success")
            ELSE /\ response' = Respond([r EXCEPT !.failed = TRUE], "serverError")
                 /\ UNCHANGED parcelActivity
    /\ http' = [http EXCEPT ![s] = Idle]
    /\ UNCHANGED <<parcel, parcelAssignment, clock>>
    /\ UNCHANGED presenceVars

(***************************************************************************)
(* updateParcelStatus: PATCH /parcel/:id/status                            *)
(***************************************************************************)
ownsAssignment_Any(agentId, userId) == TRUE

\* !(parcel.assignment?.agentId !== userId)
ownsAssignment(agentId, userId) == agentId = userId

\* The middleware, prisma.parcel.findUnique with its assignment, and the
\* checks on what it returned.
UpdateStatusBegin(s, actor, id, status) ==
    /\ FirstFree(s)
    /\ LET r0 == NewRequest("status", actor, id, NoUser, status)
           \* const parcel = await prisma.parcel.findUnique(...)
           r1 == [r0 EXCEPT !.seenStatus = parcel[id].status,
                            !.seenAgent = agentOf(id)]
           \* const validTransitions = getValidStatusTransitions(...)
           r2 == [r1 EXCEPT !.validTransitions =
                                getValidStatusTransitions(r1.seenStatus, r1.userRole)]
       IN  IF ~authorize(StatusRouteRoles, r0.userRole)
               THEN response' = Respond(r0, "forbidden") /\ UNCHANGED http
           ELSE IF r0.userRole # "admin" /\ r0.userRole # "agent"
               THEN response' = Respond(r0, "forbidden") /\ UNCHANGED http
           ELSE IF parcel[id] = NoParcel
               THEN response' = Respond(r0, "notFound") /\ UNCHANGED http
           ELSE IF r1.userRole = "agent" /\ ~ownsAssignment(r1.seenAgent, r1.userId)
               THEN response' = Respond(r1, "forbidden") /\ UNCHANGED http
           ELSE IF status \notin r2.validTransitions
               THEN response' = Respond(r2, "error") /\ UNCHANGED http
           ELSE /\ http' = [http EXCEPT ![s] = [r2 EXCEPT !.pc = "update"]]
                /\ response' = Idle
    /\ UNCHANGED <<parcel, parcelAssignment, parcelActivity, clock>>
    /\ UNCHANGED presenceVars

\* prisma.parcel.update({ where: { id }, data: { status } })
UpdateStatusWrite(s) ==
    /\ http[s].kind = "status"
    /\ http[s].pc = "update"
    /\ \E ok \in BOOLEAN :
        LET r == http[s]
        IN  IF ok /\ parcel[r.parcelId] # NoParcel
            THEN /\ parcel' = [parcel EXCEPT ![r.parcelId].status = r.status]
                 /\ response' = Respond([r EXCEPT !.wrote = {"status"}], "success")
            ELSE /\ response' = Respond([r EXCEPT !.failed = TRUE], "serverError")
                 /\ UNCHANGED parcel
    /\ http' = [http EXCEPT ![s] = Idle]
    /\ UNCHANGED <<parcelAssignment, parcelActivity, clock>>
    /\ UNCHANGED presenceVars

(***************************************************************************)
(* LocationService: the presence registry.                                 *)
(***************************************************************************)
SocketSeq == <<"k1", "k2", "k3">>
SocketIds == {SocketSeq[i] : i \in DOMAIN SocketSeq}
\* enum AgentLocationStatus
AgentLocationStatus == {"available", "on_delivery"}
NoLocation == [status |-> "none"]
NoSocket == [state |-> "none", userId |-> NoUser, userRole |-> "none"]
\* A socket that has disconnected: its client is gone, and with it the
\* events the client had received.
ClosedSocket == [state |-> "closed", userId |-> NoUser, userRole |-> "none"]

\* Map.set, Map.delete, Map.get (undefined is NoUser)
mapSet_KeepFirst(m, k, v) ==
    IF k \in DOMAIN m THEN m
    ELSE [x \in DOMAIN m \cup {k} |-> IF x = k THEN v ELSE m[x]]

mapSet(m, k, v) == [x \in DOMAIN m \cup {k} |-> IF x = k THEN v ELSE m[x]]
mapDelete(m, k) == [x \in DOMAIN m \ {k} |-> m[x]]
mapGet(m, k) == IF k \in DOMAIN m THEN m[k] ELSE NoUser
EmptyMap == [x \in {} |-> NoUser]

Event(name, agentId) == [event |-> name, agentId |-> agentId]
\* socket.emit and io.to(socketId).emit: a closed socket receives nothing.
emitTo(k, ev) ==
    IF socket[k].state = "open"
    THEN [outbox EXCEPT ![k] = Append(@, ev)]
    ELSE outbox
\* The sockets an action may still emit to (each emits at most one event).
Room(k) == socket[k].state = "open" => Len(outbox[k]) < MaxOutbox

\* The sockets not handed out yet, in the order the server will.
UnusedSockets == {i \in DOMAIN SocketSeq : socket[SocketSeq[i]].state = "none"}

\* io.use(authenticateSocket), then io.on("connection"): the handshake of
\* an active user opens the next socket under that identity.
Connection(u) ==
    /\ ~crashed
    /\ u \in Users
    /\ UnusedSockets # {}
    /\ LET i == CHOOSE i \in UnusedSockets : \A j \in UnusedSockets : i <= j
       IN  socket' = [socket EXCEPT ![SocketSeq[i]] =
                         [state |-> "open", userId |-> u, userRole |-> userRoleOf(u)]]
    /\ UNCHANGED <<agentLocation, connectedAgents, agentSockets, rooms, outbox,
                   tasks, crashed>>
    /\ UNCHANGED lifecycleVars

\* socket.on("agent:connect"): handleAgentConnect up to its await.
AgentConnect(k) ==
    /\ ~crashed
    /\ socket[k].state = "open"
    /\ Room(k)
    /\ [handler |-> "connect", socket |-> k, agentId |-> socket[k].userId] \notin tasks
    /\ IF socket[k].userRole # "agent"
       THEN /\ outbox' = emitTo(k, Event("error", NoUser))
            /\ UNCHANGED <<connectedAgents, agentSockets, tasks>>
       ELSE /\ connectedAgents' = mapSet(connectedAgents, socket[k].userId, k)
            /\ agentSockets' = mapSet(agentSockets, k, socket[k].userId)
            /\ tasks' = tasks \cup
                  {[handler |-> "connect", socket |-> k, agentId |-> socket[k].userId]}
            /\ UNCHANGED outbox
    /\ UNCHANGED <<agentLocation, socket, rooms, crashed>>
    /\ UNCHANGED lifecycleVars

\* handleAgentConnect after await prisma.agent.update: join the agent's room
\* and acknowledge.  The update throwing rejects the handler's promise, which
\* nothing catches: the unhandledRejection handler exits the process.
AgentConnectDone(t) ==
    /\ ~crashed
    /\ t \in tasks
    /\ t.handler = "connect"
    /\ tasks' = tasks \ {t}
    /\ \E ok \in BOOLEAN :
        IF ok
        THEN /\ rooms' = IF socket[t.socket].state = "open"
                         THEN rooms \cup {<<t.socket, [kind |-> "agent", id |-> t.agentId]>>}
                         ELSE rooms
             /\ outbox' = emitTo(t.socket, Event("agent:connected", t.agentId))
             /\ UNCHANGED crashed
        ELSE /\ crashed' = TRUE
             /\ UNCHANGED <<rooms, outbox>>
    /\ UNCHANGED <<agentLocation, socket, connectedAgents, agentSockets>>
    /\ UNCHANGED lifecycleVars

\* socket.on("disconnect"): the socket leaves its rooms; handleDisconnect
\* up to its await.
Disconnect(k) ==
    /\ ~crashed
    /\ socket[k].state = "open"
    /\ socket' = [socket EXCEPT ![k] = ClosedSocket]
    /\ rooms' = {m \in rooms : m[1] # k}
    /\ outbox' = [outbox EXCEPT ![k] = <<>>]
    /\ LET agentId == mapGet(agentSockets, k)
       IN  IF agentId # NoUser
           THEN /\ connectedAgents' = mapDelete(connectedAgents, agentId)
                /\ agentSockets' = mapDelete(agentSockets, k)
                /\ tasks' = tasks \cup
                      {[handler |-> "disconnect", socket |-> k, agentId |-> agentId]}
           ELSE UNCHANGED <<connectedAgents, agentSockets, tasks>>
    /\ UNCHANGED <<agentLocation, crashed>>
    /\ UNCHANGED lifecycleVars

\* A disconnect that also releases the parcels of the agent.
DisconnectDone_FreeParcels(t) ==
    /\ ~crashed
    /\ t \in tasks
    /\ t.handler = "disconnect"
    /\ tasks' = tasks \ {t}
    /\ agentLocation' = [agentLocation EXCEPT ![t.agentId].status = "available"]
    /\ parcelAssignment' = {a \in parcelAssignment : a.agentId # t.agentId}
    /\ parcel' = [p \in ParcelIds |->
                     IF agentOf(p) = t.agentId
                     THEN [parcel[p] EXCEPT !.status = "pending"]
                     ELSE parcel[p]]
    /\ UNCHANGED <<socket, connectedAgents, agentSockets, rooms, outbox, crashed>>
    /\ UNCHANGED <<parcelActivity, clock, http, response>>

\* handleDisconnect after its await: prisma.agentLocation.update throws when
\* the agent has no row (or the database fails), and nothing catches it.
DisconnectDone(t) ==
    /\ ~crashed
    /\ t \in tasks
    /\ t.handler = "disconnect"
    /\ tasks' = tasks \ {t}
    /\ \E ok \in BOOLEAN :
        IF ok /\ agentLocation[t.agentId] # NoLocation
        THEN /\ agentLocation' = [agentLocation EXCEPT ![t.agentId].status = "available"]
             /\ UNCHANGED crashed
        ELSE /\ crashed' = TRUE
             /\ UNCHANGED agentLocation
    /\ UNCHANGED <<socket, connectedAgents, agentSockets, rooms, outbox>>
    /\ UNCHANGED lifecycleVars

\* getConnectedAgents(): Array.from(this.connectedAgents.keys())
getConnectedAgents == DOMAIN connectedAgents

\* broadcastToAgent(agentId, event, data)
broadcastToAgent(agentId) ==
    /\ ~crashed
    /\ LET socketId == mapGet(connectedAgents, agentId)
       IN  /\ socketId # NoUser
           /\ Room(socketId)
           /\ outbox' = emitTo(socketId, Event("push", agentId))
    /\ UNCHANGED <<agentLocation, socket, connectedAgents, agentSockets, rooms,
                   tasks, crashed>>
    /\ UNCHANGED lifecycleVars

(***************************************************************************)
(* LocationService: location reports (agent:location-update).              *)
(***************************************************************************)
\* Coordinates in hundredths of a degree: 12.34 is 1234 and 56.78 is 5678; a
\* latitude of 100 and a longitude of 200 lie outside the valid ranges.
\* A payload without status.
NoStatus == "undefined"
\* interface LocationUpdate: the payloads the agents send.
LocationUpdate ==
    {[latitude |-> 1234, longitude |-> 5678, status |-> "on_delivery"],
     [latitude |-> 1234, longitude |-> 5678, status |-> NoStatus],
     [latitude |-> 10000, longitude |-> 5678, status |-> "on_delivery"],
     [latitude |-> 1234, longitude |-> 20000, status |-> "on_delivery"]}

ValidLatitude(x) == -9000 <= x /\ x <= 9000
ValidLongitude(x) == -18000 <= x /\ x <= 18000

\* const { latitude, longitude, status = AgentLocationStatus.available } = data
defaultStatus(data) ==
    IF data.status = NoStatus THEN "available" ELSE data.status

\* The row the upsert writes (create and update write the same columns).
LocationRow(data) ==
    [status |-> defaultStatus(data),
     latitude |-> data.latitude, longitude |-> data.longitude]

\* status: { in: [assigned, picked_up, in_transit] }
LiveStatus_Any == ParcelStatus

LiveStatus == {"assigned", "picked_up", "in_transit"}

\* where: { assignment: { agentId } }
assignedTo(p, agentId) == \E a \in assignmentsOf(p) : a.agentId = agentId

\* prisma.parcel.findMany of handleLocationUpdate, as the indices of ParcelSeq.
activeParcels(agentId) ==
    {i \in DOMAIN ParcelSeq :
        /\ ParcelSeq[i] \in DOMAIN parcel
        /\ parcel[ParcelSeq[i]] # NoParcel
        /\ assignedTo(ParcelSeq[i], agentId)
        /\ parcel[ParcelSeq[i]].status \in LiveStatus}

\* One room for all customers.
CustomerRoom_Shared(customerId) == [kind |-> "customer", id |-> "all"]

\* `customer:${customerId}`
CustomerRoom(customerId) == [kind |-> "customer", id |-> customerId]
\* The open sockets that have joined a room.
roomMembers(room) ==
    {k \in SocketIds : <<k, room>> \in rooms /\ socket[k].state = "open"}

\* emit of one event to a set of sockets, on the outboxes ob.
send(ob, ks, ev) ==
    [k \in SocketIds |->
        IF k \in ks /\ socket[k].state = "open" THEN Append(ob[k], ev) ELSE ob[k]]

\* A payload that carries whole degrees only.
LocationEvent_Rounded(parcelId, loc) ==
    [event |-> "parcel:location-update", parcelId |-> parcelId,
     latitude |-> (loc.latitude \div 100) * 100,
     longitude |-> (loc.longitude \div 100) * 100,
     status |-> loc.status]

\* The payload of parcel:location-update (updatedAt is left out).
LocationEvent(parcelId, loc) ==
    [event |-> "parcel:location-update", parcelId |-> parcelId,
     latitude |-> loc.latitude, longitude |-> loc.longitude,
     status |-> loc.status]

\* for (const parcel of activeParcels) this.io.to(`customer:...`).emit(...)
RECURSIVE broadcastLocation(_, _, _)
broadcastLocation(ob, todo, loc) ==
    IF todo = {} THEN ob
    ELSE LET i == CHOOSE i \in todo : \A j \in todo : i <= j
             p == ParcelSeq[i]
         IN  broadcastLocation(
                 send(ob, roomMembers(CustomerRoom(parcel[p].customerId)),
                      LocationEvent(p, loc)),
                 todo \ {i}, loc)

\* The handlers of a socket that are suspended at an await.
InFlight(k, handler) == {t \in tasks : t.socket = k /\ t.handler = handler}

\* socket.on("agent:location-update"): handleLocationUpdate up to its first
\* await.  A socket sends its next report after the answer to the last one.
LocationUpdate_Start(k, data) ==
    /\ ~crashed
    /\ socket[k].state = "open"
    /\ Room(k)
    /\ InFlight(k, "report") = {}
    /\ IF socket[k].userRole # "agent"
       THEN UNCHANGED tasks
       ELSE tasks' = tasks \cup
               {[handler |-> "report", socket |-> k, agentId |-> socket[k].userId,
                 data |-> data, pc |-> "upsert", updatedLocation |-> NoLocation,
                 activeParcels |-> {}]}
    /\ UNCHANGED <<agentLocation, socket, connectedAgents, agentSockets, rooms,
                   outbox, crashed>>
    /\ UNCHANGED lifecycleVars

\* The positions an agent on the move reports, in the order it sends them.
Path == <<[latitude |-> 1234, longitude |-> 5678, status |-> "on_delivery"],
          [latitude |-> 1300, longitude |-> 5700, status |-> "on_delivery"]>>

\* The reports socket k has sent: those answered and those in flight.
reportsSent(k) ==
    Cardinality({i \in DOMAIN outbox[k] : outbox[k][i].event \in
                    {"location:updated", "location:error"}})
        + Cardinality(InFlight(k, "report"))

\* socket.on("agent:location-update") for a client that does not wait for
\* the answer: the listener starts handleLocationUpdate for the next position
\* of the path while the handlers of the earlier ones are at their awaits.
LocationUpdate_Next(k) ==
    /\ ~crashed
    /\ socket[k].state = "open"
    /\ reportsSent(k) < Len(Path)
    /\ IF socket[k].userRole # "agent"
       THEN UNCHANGED tasks
       ELSE tasks' = tasks \cup
               {[handler |-> "report", socket |-> k, agentId |-> socket[k].userId,
                 data |-> Path[reportsSent(k) + 1], pc |-> "upsert",
                 updatedLocation |-> NoLocation, activeParcels |-> {}]}
    /\ UNCHANGED <<agentLocation, socket, connectedAgents, agentSockets, rooms,
                   outbox, crashed>>
    /\ UNCHANGED lifecycleVars

\* The answer of the handler to the reporting socket.
answer(ob, t, name) == send(ob, {t.socket}, Event(name, t.agentId))

\* A failed write that is not reported to the agent.
LocationUpsert_Silent(t) ==
    /\ ~crashed
    /\ t \in tasks
    /\ t.handler = "report"
    /\ t.pc = "upsert"
    /\ \E ok \in BOOLEAN :
        IF ok
        THEN /\ agentLocation' = [agentLocation EXCEPT ![t.agentId] = LocationRow(t.data)]
             /\ tasks' = (tasks \ {t}) \cup
                   {[t EXCEPT !.pc = "findMany", !.updatedLocation = LocationRow(t.data)]}
        ELSE /\ tasks' = tasks \ {t}
             /\ UNCHANGED agentLocation
    /\ UNCHANGED <<socket, connectedAgents, agentSockets, rooms, outbox, crashed>>
    /\ UNCHANGED lifecycleVars

\* await prisma.agentLocation.upsert: the row is written, or the call throws
\* and the catch answers location:error.
LocationUpsert(t) ==
    /\ ~crashed
    /\ t \in tasks
    /\ t.handler = "report"
    /\ t.pc = "upsert"
    /\ \E ok \in BOOLEAN :
        IF ok
        THEN /\ agentLocation' = [agentLocation EXCEPT ![t.agentId] = LocationRow(t.data)]
             /\ tasks' = (tasks \ {t}) \cup
                   {[t EXCEPT !.pc = "findMany", !.updatedLocation = LocationRow(t.data)]}
             /\ UNCHANGED outbox
        ELSE /\ outbox' = answer(outbox, t, "location:error")
             /\ tasks' = tasks \ {t}
             /\ UNCHANGED agentLocation
    /\ UNCHANGED <<socket, connectedAgents, agentSockets, rooms, crashed>>
    /\ UNCHANGED lifecycleVars

\* await prisma.parcel.findMany: the query reads the tables, or throws and
\* the catch answers location:error.
LocationFindMany(t) ==
    /\ ~crashed
    /\ t \in tasks
    /\ t.handler = "report"
    /\ t.pc = "findMany"
    /\ \E ok \in BOOLEAN :
        IF ok
        THEN /\ tasks' = (tasks \ {t}) \cup
                   {[t EXCEPT !.pc = "broadcast",
                              !.activeParcels = activeParcels(t.agentId)]}
             /\ UNCHANGED outbox
        ELSE /\ outbox' = answer(outbox, t, "location:error")
             /\ tasks' = tasks \ {t}
    /\ UNCHANGED <<agentLocation, socket, connectedAgents, agentSockets, rooms, crashed>>
    /\ UNCHANGED lifecycleVars

\* The handler resumed with the parcels found: the broadcast loop and the
\* answer location:updated.  An emit of the loop throwing lands in the catch,
\* which answers location:error.
LocationBroadcast(t) ==
    /\ ~crashed
    /\ t \in tasks
    /\ t.handler = "report"
    /\ t.pc = "broadcast"
    /\ tasks' = tasks \ {t}
    /\ \E thrown \in BOOLEAN :
        IF thrown
        THEN /\ t.activeParcels # {}
             /\ outbox' = answer(outbox, t, "location:error")
        ELSE outbox' = answer(broadcastLocation(outbox, t.activeParcels,
                                                t.updatedLocation),
                              t, "location:updated")
    /\ UNCHANGED <<agentLocation, socket, connectedAgents, agentSockets, rooms, crashed>>
    /\ UNCHANGED lifecycleVars

(***************************************************************************)
(* LocationService: parcel tracking (customer:track-parcel).               *)
(***************************************************************************)
TrackingEvent(name, parcelId, message) ==
    [event |-> name, parcelId |-> parcelId, message |-> message]

\* socket.on("customer:track-parcel"): handleParcelTracking up to its await.
ParcelTracking_Start(k, parcelId) ==
    /\ ~crashed
    /\ socket[k].state = "open"
    /\ Room(k)
    /\ InFlight(k, "track") = {}
    /\ IF socket[k].userRole # "customer"
       THEN /\ outbox' = emitTo(k, Event("error", NoUser))
            /\ UNCHANGED tasks
       ELSE /\ tasks' = tasks \cup
                  {[handler |-> "track", socket |-> k, customerId |-> socket[k].userId,
                    parcelId |-> parcelId, pc |-> "findFirst", found |-> FALSE,
                    assignment |-> FALSE, location |-> NoLocation]}
            /\ UNCHANGED outbox
    /\ UNCHANGED <<agentLocation, socket, connectedAgents, agentSockets, rooms, crashed>>
    /\ UNCHANGED lifecycleVars

\* findFirst({ where: { id: parcelId, customerId } })
ownedParcel_AnyOwner(parcelId, customerId) == parcel[parcelId] # NoParcel

ownedParcel(parcelId, customerId) ==
    parcel[parcelId] # NoParcel /\ parcel[parcelId].customerId = customerId

\* !parcel.assignment
hasAssignment_Always(parcelId) == TRUE

hasAssignment(parcelId) == assignmentsOf(parcelId) # {}

\* parcel.assignment?.agent.location, NoLocation when the agent has no row
locationOf(parcelId) ==
    IF agentOf(parcelId) \in DOMAIN agentLocation
    THEN agentLocation[agentOf(parcelId)]
    ELSE NoLocation

\* location?.status === AgentLocationStatus.on_delivery
snapshotDue_Always(loc) == loc # NoLocation

snapshotDue(loc) == loc.status = "on_delivery"

\* await prisma.parcel.findFirst with its include: the query reads the parcel
\* of the customer, whether it has an assignment and the location of the
\* assigned agent, or throws and the catch answers tracking:error.
ParcelTracking_FindFirst(t) ==
    /\ ~crashed
    /\ t \in tasks
    /\ t.handler = "track"
    /\ t.pc = "findFirst"
    /\ \E ok \in BOOLEAN :
        IF ok
        THEN /\ tasks' = (tasks \ {t}) \cup
                   {[t EXCEPT !.pc = "found",
                              !.found = ownedParcel(t.parcelId, t.customerId),
                              !.assignment = /\ ownedParcel(t.parcelId, t.customerId)
                                             /\ hasAssignment(t.parcelId),
                              !.location = IF /\ ownedParcel(t.parcelId, t.customerId)
                                              /\ hasAssignment(t.parcelId)
                                           THEN locationOf(t.parcelId)
                                           ELSE NoLocation]}
             /\ UNCHANGED outbox
        ELSE /\ outbox' = emitTo(t.socket,
                     TrackingEvent("tracking:error", t.parcelId, "Failed to start tracking"))
             /\ tasks' = tasks \ {t}
    /\ UNCHANGED <<agentLocation, socket, connectedAgents, agentSockets, rooms, crashed>>
    /\ UNCHANGED lifecycleVars

\* handleParcelTracking resumed with the parcel that findFirst returned: the
\* two refusals, or the join, the snapshot and tracking:started.
ParcelTracking_Found(t) ==
    /\ ~crashed
    /\ t \in tasks
    /\ t.handler = "track"
    /\ t.pc = "found"
    /\ tasks' = tasks \ {t}
    /\ IF ~t.found
       THEN /\ outbox' = emitTo(t.socket,
                    TrackingEvent("tracking:error", t.parcelId,
                                  "Parcel not found or access denied"))
            /\ UNCHANGED rooms
       ELSE IF ~t.assignment
       THEN /\ outbox' = emitTo(t.socket,
                    TrackingEvent("tracking:error", t.parcelId,
                                  "Parcel not yet assigned to an agent"))
            /\ UNCHANGED rooms
       ELSE /\ rooms' = IF socket[t.socket].state = "open"
                        THEN rooms \cup {<<t.socket, CustomerRoom(t.customerId)>>}
                        ELSE rooms
            /\ LET snapshot == IF snapshotDue(t.location)
                               THEN send(outbox, {t.socket},
                                         LocationEvent(t.parcelId, t.location))
                               ELSE outbox
               IN  outbox' = send(snapshot, {t.socket},
                                  TrackingEvent("tracking:started", t.parcelId,
                                                "Real-time tracking started"))
    /\ UNCHANGED <<agentLocation, socket, connectedAgents, agentSockets, crashed>>
    /\ UNCHANGED lifecycleVars

(***************************************************************************)
(* The specifications.                                                     *)
(***************************************************************************)
\* agentId values of an assign request: the agents, a customer, an unknown
\* id and a missing field.
AgentIdInputs == Agents \cup Customers \cup {NoUser, Missing}

\* The rows an assignment of parcel p1 to agent g by admin a1 leaves behind.
AssignmentRow(g) ==
    [parcelId |-> "p1", agentId |-> g, assignedBy |-> "a1", assignedAt |-> 0]
AssignedActivity ==
    [parcelId |-> "p1", action |-> "assigned", activityBy |-> "a1", role |-> "admin"]

\* The database after customer c1 created parcel p1 and admin a1 assigned it
\* to agent g1.
InitAssigned ==
    /\ parcel = [p \in ParcelIds |-> [status |-> "assigned", customerId |-> "c1"]]
    /\ parcelAssignment = {AssignmentRow("g1")}
    /\ parcelActivity = <<AssignedActivity>>
    /\ clock = 1
    /\ http = [s \in Slots |-> Idle]
    /\ response = Idle

\* A new database.
InitLifecycle ==
    /\ parcel = [p \in ParcelIds |-> NoParcel]
    /\ parcelAssignment = {}
    /\ parcelActivity = <<>>
    /\ clock = 0
    /\ http = [s \in Slots |-> Idle]
    /\ response = Idle

\* new LocationService(io): no socket yet, both maps empty.
InitService ==
    /\ socket = [k \in SocketIds |-> NoSocket]
    /\ connectedAgents = EmptyMap
    /\ agentSockets = EmptyMap
    /\ rooms = {}
    /\ outbox = [k \in SocketIds |-> <<>>]
    /\ tasks = {}
    /\ crashed = FALSE

Init ==
    /\ InitLifecycle
    /\ InitService
    /\ agentLocation = [a \in Agents |-> NoLocation]

Next ==
    \/ \E u \in Users : createParcel(u)
    \/ \E s \in Slots, u \in Users, p \in ParcelIds, g \in AgentIdInputs :
          AssignBegin(s, u, p, g)
    \/ \E s \in Slots : AssignTransaction(s)
    \/ \E s \in Slots : AssignActivity(s)
    \/ \E s \in Slots, u \in Users, p \in ParcelIds, st \in ParcelStatus :
          UpdateStatusBegin(s, u, p, st)
    \/ \E s \in Slots : UpdateStatusWrite(s)

Spec == Init /\ [][Next]_vars

\* The service is constructed over the database as earlier runs left it:
\* the parcel is assigned to agent g1, and an agent may have an AgentLocation
\* row of either status, or none.
InitPresence ==
    /\ InitAssigned
    /\ InitService
    /\ agentLocation \in [Agents -> {NoLocation} \cup
                                     [status : AgentLocationStatus,
                                      latitude : {1234}, longitude : {5678}]]

NextPresence ==
    \/ \E u \in Users : Connection(u)
    \/ \E k \in SocketIds : AgentConnect(k)
    \/ \E t \in tasks : AgentConnectDone(t)
    \/ \E k \in SocketIds : Disconnect(k)
    \/ \E t \in tasks : DisconnectDone(t)
    \/ \E a \in Agents : broadcastToAgent(a)

SpecPresence == InitPresence /\ [][NextPresence]_vars

\* The event loop resumes a handler once the call it awaits has settled.
FairPresence ==
    /\ SpecPresence
    /\ WF_vars(\E t \in tasks : AgentConnectDone(t))
    /\ WF_vars(\E t \in tasks : DisconnectDone(t))

\* The service is constructed over the database as the HTTP handlers left
\* it: no parcel yet, or parcel p1 of customer c1 in any status (the admin can
\* move it to every status), never assigned or assigned to either agent.
InitTracking ==
    /\ parcel \in [ParcelIds -> {NoParcel} \cup
                                [status : ParcelStatus, customerId : {"c1"}]]
    /\ parcelAssignment \in {{}} \cup {{AssignmentRow(g)} : g \in Agents}
    /\ parcel["p1"] = NoParcel => parcelAssignment = {}
    /\ clock = IF parcelAssignment = {} THEN 0 ELSE 1
    /\ parcelActivity = IF parcelAssignment = {} THEN <<>> ELSE <<AssignedActivity>>
    /\ http = [s \in Slots |-> Idle]
    /\ response = Idle
    /\ InitService
    /\ agentLocation = [a \in Agents |-> NoLocation]

\* The connections of the tracking scenarios: agent g1 and both customers,
\* on the first two sockets.
TrackingUsers == {"g1", "c1", "c2"}
TrackingSockets == {"k1", "k2"}

NextTracking ==
    \/ \E u \in TrackingUsers :
          Connection(u) /\ \E k \in TrackingSockets : socket[k].state = "none"
    \/ \E k \in SocketIds : Disconnect(k)
    \/ \E k \in SocketIds, data \in LocationUpdate : LocationUpdate_Start(k, data)
    \/ \E t \in tasks : LocationUpsert(t)
    \/ \E t \in tasks : LocationFindMany(t)
    \/ \E t \in tasks : LocationBroadcast(t)
    \/ \E k \in SocketIds, p \in ParcelIds : ParcelTracking_Start(k, p)
    \/ \E t \in tasks : ParcelTracking_FindFirst(t)
    \/ \E t \in tasks : ParcelTracking_Found(t)

SpecTracking == InitTracking /\ [][NextTracking]_vars

\* End to end, from a new database: customer c1 creates the parcel, admin a1
\* assigns agent g1, g1 reports its position and c1 tracks the parcel.
EndToEndUsers == {"g1", "c1"}
EndToEndReports == {[latitude |-> 1234, longitude |-> 5678, status |-> "on_delivery"]}

NextEndToEnd ==
    \/ createParcel("c1")
    \/ \E s \in Slots, p \in ParcelIds : AssignBegin(s, "a1", p, "g1")
    \/ \E s \in Slots : AssignTransaction(s)
    \/ \E s \in Slots : AssignActivity(s)
    \/ \E u \in EndToEndUsers :
          Connection(u) /\ \E k \in TrackingSockets : socket[k].state = "none"
    \/ \E k \in SocketIds : Disconnect(k)
    \/ \E k \in SocketIds, data \in EndToEndReports : LocationUpdate_Start(k, data)
    \/ \E t \in tasks : LocationUpsert(t)
    \/ \E t \in tasks : LocationFindMany(t)
    \/ \E t \in tasks : LocationBroadcast(t)
    \/ \E k \in SocketIds, p \in ParcelIds : ParcelTracking_Start(k, p)
    \/ \E t \in tasks : ParcelTracking_FindFirst(t)
    \/ \E t \in tasks : ParcelTracking_Found(t)

SpecEndToEnd == Init /\ [][NextEndToEnd]_vars

\* Two status updates of the same parcel in flight at once: the parcel is
\* assigned to agent g1 and live, and the admin and the agent both send
\* PATCH /parcel/p1/status.
RaceSlots == {1, 2}
RaceUsers == {"a1", "g1"}

InitRace ==
    /\ parcel \in [ParcelIds -> [status : {"assigned", "picked_up", "in_transit"},
                                 customerId : {"c1"}]]
    /\ parcelAssignment = {AssignmentRow("g1")}
    /\ parcelActivity = <<AssignedActivity>>
    /\ clock = 1
    /\ http = [s \in RaceSlots |-> Idle]
    /\ response = Idle
    /\ InitService
    /\ agentLocation = [a \in Agents |-> NoLocation]

NextRace ==
    \/ \E s \in RaceSlots, u \in RaceUsers, p \in ParcelIds, st \in ParcelStatus :
          UpdateStatusBegin(s, u, p, st)
    \/ \E s \in RaceSlots : UpdateStatusWrite(s)

SpecRace == InitRace /\ [][NextRace]_vars

\* Fan-out with two parcels.  The service runs over the database as the
\* HTTP handlers left it: admin a1 assigned both parcels to agent g1; p1
\* belongs to customer c1 and is assigned, p2 belongs to c1 or c2 and is
\* assigned or delivered.  The admin reassigns p2 to agent g2 while g1
\* reports and the customers subscribe.
FanOutParcels == {"p1", "p2"}
FanOutUsers == {"g1", "c1", "c2"}
FanOutReports == {[latitude |-> 1234, longitude |-> 5678, status |-> "on_delivery"]}

InitFanOut ==
    /\ parcel \in [FanOutParcels -> [status : {"assigned", "delivered"},
                                     customerId : {"c1", "c2"}]]
    /\ parcel["p1"] = [status |-> "assigned", customerId |-> "c1"]
    /\ parcelAssignment =
          {AssignmentRow("g1"),
           [AssignmentRow("g1") EXCEPT !.parcelId = "p2", !.assignedAt = 1]}
    /\ parcelActivity =
          <<AssignedActivity, [AssignedActivity EXCEPT !.parcelId = "p2"]>>
    /\ clock = 2
    /\ http = [s \in Slots |-> Idle]
    /\ response = Idle
    /\ InitService
    /\ agentLocation = [a \in Agents |-> NoLocation]

NextFanOut ==
    \/ \E s \in Slots : AssignBegin(s, "a1", "p2", "g2")
    \/ \E s \in Slots : AssignTransaction(s)
    \/ \E s \in Slots : AssignActivity(s)
    \/ \E u \in FanOutUsers :
          Connection(u) /\ \E k \in TrackingSockets : socket[k].state = "none"
    \/ \E k \in SocketIds : Disconnect(k)
    \/ \E k \in SocketIds, data \in FanOutReports : LocationUpdate_Start(k, data)
    \/ \E t \in tasks : LocationUpsert(t)
    \/ \E t \in tasks : LocationFindMany(t)
    \/ \E t \in tasks : LocationBroadcast(t)
    \/ \E k \in SocketIds, p \in FanOutParcels : ParcelTracking_Start(k, p)
    \/ \E t \in tasks : ParcelTracking_FindFirst(t)
    \/ \E t \in tasks : ParcelTracking_Found(t)

SpecFanOut == InitFanOut /\ [][NextFanOut]_vars

\* Agent g1 on the move: it sends the positions of its path without waiting
\* for the answers, while customer c1 tracks parcel p1, assigned to g1.
InitPipelined ==
    /\ InitAssigned
    /\ InitService
    /\ agentLocation = [a \in Agents |-> NoLocation]

NextPipelined ==
    \/ \E u \in EndToEndUsers :
          Connection(u) /\ \E k \in TrackingSockets : socket[k].state = "none"
    \/ \E k \in SocketIds : LocationUpdate_Next(k)
    \/ \E t \in tasks : LocationUpsert(t)
    \/ \E t \in tasks : LocationFindMany(t)
    \/ \E t \in tasks : LocationBroadcast(t)
    \/ \E k \in SocketIds, p \in ParcelIds : ParcelTracking_Start(k, p)
    \/ \E t \in tasks : ParcelTracking_FindFirst(t)
    \/ \E t \in tasks : ParcelTracking_Found(t)

SpecPipelined == InitPipelined /\ [][NextPipelined]_vars

\* Agent g1, which has an AgentLocation row, registers for location sharing,
\* reports from its registered connection and disconnects.
InitOffline ==
    /\ InitAssigned
    /\ InitService
    /\ agentLocation =
          [a \in Agents |->
              IF a = "g1"
              THEN [status |-> "available", latitude |-> 1234, longitude |-> 5678]
              ELSE NoLocation]

NextOffline ==
    \/ Connection("g1") /\ \E k \in TrackingSockets : socket[k].state = "none"
    \/ \E k \in SocketIds : AgentConnect(k)
    \/ \E t \in tasks : AgentConnectDone(t)
    \/ \E k \in DOMAIN agentSockets, data \in EndToEndReports :
          LocationUpdate_Start(k, data)
    \/ \E t \in tasks : LocationUpsert(t)
    \/ \E t \in tasks : LocationFindMany(t)
    \/ \E t \in tasks : LocationBroadcast(t)
    \/ \E k \in SocketIds : Disconnect(k)
    \/ \E t \in tasks : DisconnectDone(t)

SpecOffline == InitOffline /\ [][NextOffline]_vars

(***************************************************************************)
(* Properties of the lifecycle.                                            *)
(***************************************************************************)
AllRoles == UserRole \cup {"none"}

\* The table of section 4.1, one line per (status, role) pair it lists.
Canonical(status, role) ==
    CASE status = "pending"    /\ role = "admin" -> {"assigned"}
      [] status = "assigned"   /\ role = "agent" -> {"picked_up"}
      [] status = "assigned"   /\ role = "admin" -> {"picked_up", "pending"}
      [] status = "picked_up"  /\ role = "agent" -> {"in_transit"}
      [] status = "picked_up"  /\ role = "admin" -> {"in_transit", "assigned"}
      [] status = "in_transit" /\ role = "agent" -> {"delivered", "failed"}
      [] status = "in_transit" /\ role = "admin" -> {"delivered", "failed", "picked_up"}
      [] status = "delivered"  /\ role = "admin" -> {"in_transit"}
      [] status = "failed"     /\ role = "admin" -> {"pending", "assigned"}
      [] OTHER -> {}

\* The request of slot s took a step.
Stepped(s) == http'[s] # http[s]
TxStep(s) == http[s].kind = "assign" /\ http[s].pc = "transaction" /\ Stepped(s)
ActivityStep(s) == http[s].kind = "assign" /\ http[s].pc = "activity" /\ Stepped(s)
Tables == <<parcel, parcelAssignment, parcelActivity>>

\* C1: for every status and every role getValidStatusTransitions returns the
\* set the canonical table lists, the empty set for a pair the table does not
\* list and for a role that is neither agent nor admin; a status update that
\* passed the validation asked for a status of that set, and one answered
\* "Invalid status transition" asked for a status outside it.
C1_TransitionTable ==
    /\ \A st \in ParcelStatus, role \in AllRoles :
          getValidStatusTransitions(st, role) = Canonical(st, role)
    /\ \A s \in Slots :
          http[s].kind = "status" =>
              /\ http[s].validTransitions = Canonical(http[s].seenStatus, http[s].userRole)
              /\ http[s].status \in Canonical(http[s].seenStatus, http[s].userRole)
    /\ (response.kind = "status" /\ response.result = "error") =>
          response.status \notin Canonical(response.seenStatus, response.userRole)
    /\ (response.kind = "status" /\ response.wrote # {}) =>
          response.status \in Canonical(response.seenStatus, response.userRole)

\* An agent asked to move its own delivered parcel: the pair (delivered,
\* agent) is not in the table and the request was denied.
C1_Witness ==
    /\ response.kind = "status"
    /\ response.result = "error"
    /\ response.userRole = "agent"
    /\ response.seenStatus = "delivered"
    /\ response.validTransitions = {}

OutsideAssignable == {"picked_up", "in_transit", "delivered", "failed"}

AssignEffects == {"assignment", "status", "activity"}

\* C3: an answered assign call has applied all three of its writes or none
\* of them, and it reports success exactly when it applied all three.
C3_AllOrNothing ==
    response.kind = "assign" =>
        /\ response.wrote \in {{}, AssignEffects}
        /\ (response.result = "success") <=> (response.wrote = AssignEffects)

\* C4: an assign whose transaction finds the parcel pending, no database
\* call of it failing, commits status assigned and an Assignment of the
\* requested agent, appends exactly one "assigned" Activity of the parcel
\* and is answered with success.
C4_AssignPending ==
    [][\A s \in Slots :
          LET r == http[s]
              p == r.parcelId
          IN  /\ (TxStep(s) /\ parcel[p].status = "pending") =>
                    \/ response'.kind = "assign" /\ response'.failed
                    \/ /\ http'[s].pc = "activity"
                       /\ parcel'[p].status = "assigned"
                       /\ \A a \in assignmentsOf(p)' : a.agentId = r.agentId
                       /\ assignmentsOf(p)' # {}
                       /\ parcelActivity' = parcelActivity
              /\ (ActivityStep(s) /\ r.txStatus = "pending") =>
                    \/ response'.kind = "assign" /\ response'.failed
                    \/ /\ response'.result = "success"
                       /\ parcelActivity' = Append(parcelActivity,
                              [parcelId |-> p, action |-> "assigned",
                               activityBy |-> r.userId, role |-> "admin"])]_vars

\* A pending parcel was assigned: the call succeeded, the parcel is assigned
\* to the requested agent and the log holds its one Activity.
C4_Witness ==
    /\ response.kind = "assign"
    /\ response.result = "success"
    /\ response.txStatus = "pending"
    /\ parcel[response.parcelId].status = "assigned"
    /\ agentOf(response.parcelId) = response.agentId
    /\ Len(parcelActivity) = 1

\* C5: an assign whose transaction finds the parcel assigned and holding an
\* Assignment, no database call of it failing, leaves the status assigned
\* and the parcel with exactly one Assignment row, that row being the
\* parcel's and naming the requested agent (so a repeat of the same assign
\* leaves agent and status as they were), and is answered with success.
C5_Reassign ==
    [][\A s \in Slots :
          LET r == http[s]
              p == r.parcelId
          IN  /\ (TxStep(s) /\ parcel[p].status = "assigned" /\ assignmentsOf(p) # {}) =>
                    \/ response'.kind = "assign" /\ response'.failed
                    \/ /\ http'[s].pc = "activity"
                       /\ parcel'[p].status = "assigned"
                       /\ Cardinality(parcelAssignment') = Cardinality(parcelAssignment)
                       /\ assignmentsOf(p)' =
                              {[parcelId |-> p, agentId |-> r.agentId,
                                assignedBy |-> r.userId, assignedAt |-> clock]}
                       /\ (agentOf(p) = r.agentId => agentOf(p)' = agentOf(p))
              /\ (ActivityStep(s) /\ r.txStatus = "assigned" /\ r.prevAgent # NoUser) =>
                    \/ response'.kind = "assign" /\ response'.failed
                    \/ response'.result = "success"]_vars

\* An assigned parcel was reassigned from one agent to another.
C5_Witness ==
    /\ response.kind = "assign"
    /\ response.result = "success"
    /\ response.txStatus = "assigned"
    /\ response.prevAgent \in Agents \ {response.agentId}
    /\ parcel[response.parcelId].status = "assigned"
    /\ agentOf(response.parcelId) = response.agentId
    /\ Cardinality(assignmentsOf(response.parcelId)) = 1

\* C6: the agent of every Assignment row is a user with the agent role; an
\* assign by an admin whose agentId is no such user is answered NotFound
\* without having reached the transaction or written anything.
C6_AgentResolves ==
    /\ \A a \in parcelAssignment : userRoleOf(a.agentId) = "agent"
    /\ \A s \in Slots : http[s].kind = "assign" => userRoleOf(http[s].agentId) = "agent"
    /\ ( /\ response.kind = "assign"
         /\ response.userRole = "admin"
         /\ response.agentId # Missing
         /\ userRoleOf(response.agentId) # "agent" ) =>
            /\ response.result = "notFound"
            /\ response.wrote = {}
            /\ response.txStatus = "none"

\* An assign naming a customer as the agent was answered NotFound.
C6_Witness ==
    /\ response.kind = "assign"
    /\ response.result = "notFound"
    /\ response.agentId \in Customers
    /\ parcelAssignment = {}
    /\ parcel[response.parcelId].status = "pending"

\* C7: an assign request of a user who is not an admin is answered
\* Forbidden, never reaches the transaction and writes nothing.
C7_AdminOnly ==
    /\ \A s \in Slots : http[s].kind = "assign" => http[s].userRole = "admin"
    /\ (response.kind = "assign" /\ response.userRole # "admin") =>
            /\ response.result = "forbidden"
            /\ response.wrote = {}
            /\ response.txStatus = "none"

\* An agent asked to assign itself to a pending parcel and was refused.
C7_Witness ==
    /\ response.kind = "assign"
    /\ response.userRole = "agent"
    /\ response.agentId = response.userId
    /\ response.result = "forbidden"
    /\ parcel[response.parcelId].status = "pending"
    /\ parcelAssignment = {}

\* C8: a status update of an agent reaches the write only when the
\* Assignment it read names that agent; when the Assignment it read is
\* missing or names another agent the request is answered Forbidden and
\* writes nothing.
C8_AgentOwnParcel ==
    /\ \A s \in Slots :
          (http[s].kind = "status" /\ http[s].userRole = "agent") =>
              http[s].seenAgent = http[s].userId
    /\ ( /\ response.kind = "status"
         /\ response.userRole = "agent"
         /\ response.seenStatus # "none"
         /\ response.seenAgent # response.userId ) =>
            /\ response.result = "forbidden"
            /\ response.wrote = {}

\* An agent asked for a transition the table allows to agents, on a parcel
\* assigned to another agent, and was refused; the status is unchanged.
C8_Witness ==
    /\ response.kind = "status"
    /\ response.userRole = "agent"
    /\ response.seenAgent \in Agents \ {response.userId}
    /\ response.status \in getValidStatusTransitions(response.seenStatus, "agent")
    /\ response.result = "forbidden"
    /\ parcel[response.parcelId].status = response.seenStatus

(***************************************************************************)
(* Properties of the presence registry.                                    *)
(***************************************************************************)
\* The socket k disconnects in this step.
Disconnects(k) == socket[k].state = "open" /\ socket'[k].state = "closed"

\* The event a step appended to the outbox of socket k, if any.
Delivered(k) ==
    IF Len(outbox'[k]) > Len(outbox[k])
    THEN {outbox'[k][Len(outbox'[k])]}
    ELSE {}

\* C9: a disconnect of socket k removes an agent's presence mapping only if
\* the stored socket of that agent is still k: every agent mapped to another
\* socket stays mapped to it, and stays listed as connected.
C9_DisconnectOnlyIfCurrent ==
    [][\A k \in SocketIds :
          Disconnects(k) =>
              \A a \in getConnectedAgents :
                  connectedAgents[a] # k =>
                      /\ a \in getConnectedAgents'
                      /\ connectedAgents'[a] = connectedAgents[a]]_vars

\* C10: last connect wins.  The agent:connect of agent A on socket k leaves
\* A mapped to k whatever A was mapped to before, and a direct push to an
\* agent is delivered to the socket the agent is mapped to and to no other.
C10_LastConnectWins ==
    [][/\ \A t \in tasks' \ tasks :
              t.handler = "connect" =>
                  /\ t.agentId \in getConnectedAgents'
                  /\ connectedAgents'[t.agentId] = t.socket
       /\ \A k \in SocketIds :
              \A ev \in Delivered(k) :
                  ev.event = "push" =>
                      /\ mapGet(connectedAgents, ev.agentId) = k
                      /\ \A j \in SocketIds \ {k} : Delivered(j) = {}]_vars

\* Agent g1 connected on k1 and then on k2, both sockets are still open, and
\* a push to g1 has reached k2 while k1 has received none.
C10_Witness ==
    /\ socket["k1"].state = "open"
    /\ socket["k2"].state = "open"
    /\ mapGet(agentSockets, "k1") = "g1"
    /\ mapGet(agentSockets, "k2") = "g1"
    /\ mapGet(connectedAgents, "g1") = "k2"
    /\ \E i \in DOMAIN outbox["k2"] : outbox["k2"][i] = Event("push", "g1")
    /\ \A i \in DOMAIN outbox["k1"] : outbox["k1"][i].event # "push"

\* The handler of task t finishes in this step.
Finishes(t) == t \in tasks /\ t \notin tasks'

\* C11: handling the disconnect of a registered agent sets the status of the
\* agent's AgentLocation row to available (when the update goes through), and
\* no step of the handler changes a Parcel row or an Assignment row.
C11_DisconnectFrame ==
    [][/\ \A k \in SocketIds :
              Disconnects(k) =>
                  /\ parcel' = parcel
                  /\ parcelAssignment' = parcelAssignment
       /\ \A t \in tasks :
              (t.handler = "disconnect" /\ Finishes(t)) =>
                  /\ parcel' = parcel
                  /\ parcelAssignment' = parcelAssignment
                  /\ ~crashed' => agentLocation'[t.agentId].status = "available"]_vars

\* Agent g1, on delivery with parcel p1 assigned to it, has disconnected and
\* the handler is at its update of the AgentLocation row.
C11_Witness ==
    /\ \E t \in tasks : t.handler = "disconnect" /\ t.agentId = "g1"
    /\ agentLocation["g1"].status = "on_delivery"
    /\ parcel["p1"].status = "assigned"
    /\ agentOf("p1") = "g1"
    /\ ~crashed

\* C12: the acknowledgment does not depend on the last-active stamp: once an
\* agent's agent:connect is being handled on an open socket, agent:connected
\* is eventually emitted to that socket (or the socket has gone), whether or
\* not the write of lastActive succeeds.
C12_AckRegardlessOfStamp ==
    \A k \in SocketIds :
        (InFlight(k, "connect") # {})
            ~> ( \/ socket[k].state # "open"
                 \/ \E i \in DOMAIN outbox[k] : outbox[k][i].event = "agent:connected" )

(***************************************************************************)
(* Properties of location reports and parcel tracking.                     *)
(***************************************************************************)
\* The events a step appended to the outbox of socket k, in order.
Received(k) ==
    IF Len(outbox'[k]) > Len(outbox[k])
    THEN SubSeq(outbox'[k], Len(outbox[k]) + 1, Len(outbox'[k]))
    ELSE <<>>
Events(seq) == {seq[i] : i \in DOMAIN seq}

\* The handler of task t takes a step; it ends when the step leaves no task
\* of that handler on the socket.
Resumes(t) == t \in tasks /\ t \notin tasks'
Ends(t) ==
    /\ Resumes(t)
    /\ \A u \in tasks' : ~(u.socket = t.socket /\ u.handler = t.handler)

NoLocationEvent ==
    \A k \in SocketIds :
        \A ev \in Events(Received(k)) : ev.event # "parcel:location-update"

ValidReport(data) == ValidLatitude(data.latitude) /\ ValidLongitude(data.longitude)

\* C13: a report with a latitude outside [-90, 90] or a longitude outside
\* [-180, 180] has no effect: no step of its handler creates or changes an
\* AgentLocation row or emits parcel:location-update, and the handler does
\* not answer location:updated.
C13_InvalidReportRejected ==
    [][\A t \in tasks :
          (t.handler = "report" /\ ~ValidReport(t.data) /\ Resumes(t)) =>
              /\ agentLocation' = agentLocation
              /\ NoLocationEvent
              /\ \A ev \in Events(Received(t.socket)) : ev.event # "location:updated"]_vars

\* C14: every parcel:location-update emitted by the handler of a report of
\* agent G is for a parcel that has an Assignment to G and whose status is
\* assigned, picked_up or in_transit.
C14_OnlyLiveAssigned ==
    [][\A t \in tasks :
          (t.handler = "report" /\ Resumes(t)) =>
              \A k \in SocketIds :
                  \A ev \in Events(Received(k)) :
                      ev.event = "parcel:location-update" =>
                          /\ \E a \in parcelAssignment :
                                a.parcelId = ev.parcelId /\ a.agentId = t.agentId
                          /\ parcel[ev.parcelId].status \in
                                {"assigned", "picked_up", "in_transit"}]_vars

\* The customer's socket k2 tracks parcel p1, in transit with agent g1, and
\* has received a report of g1 after tracking:started.
C14_Witness ==
    /\ parcel["p1"].status = "in_transit"
    /\ agentOf("p1") = "g1"
    /\ socket["k1"].userId = "g1"
    /\ Len(outbox["k2"]) >= 2
    /\ outbox["k2"][Len(outbox["k2"]) - 1].event = "tracking:started"
    /\ outbox["k2"][Len(outbox["k2"])].event = "parcel:location-update"
    /\ outbox["k1"] = <<Event("location:updated", "g1")>>

\* C15: when a report of the agent is answered location:updated, every open
\* connection in the room of the owner of a parcel the handler found live and
\* assigned to that agent has received parcel:location-update for the parcel
\* with exactly the reported latitude, longitude and status; and a
\* connection receives such an event
\* only in the step of a report whose room it is in, or as the snapshot of
\* its own subscribe: nothing is queued, retried or delivered later.
C15_EndToEnd ==
    [][/\ \A t \in tasks :
              ( /\ t.handler = "report"
                /\ Ends(t)
                /\ Event("location:updated", t.agentId) \in Events(Received(t.socket)) ) =>
                  \A p \in {ParcelSeq[i] : i \in t.activeParcels} :
                          \A k \in SocketIds :
                              ( /\ socket[k].state = "open"
                                /\ <<k, CustomerRoom(parcel[p].customerId)>> \in rooms ) =>
                                  [event |-> "parcel:location-update", parcelId |-> p,
                                   latitude |-> t.data.latitude,
                                   longitude |-> t.data.longitude,
                                   status |-> t.data.status] \in Events(Received(k))
       /\ \A k \in SocketIds :
              \A ev \in Events(Received(k)) :
                  ev.event = "parcel:location-update" =>
                      \E t \in tasks :
                          /\ Ends(t)
                          /\ \/ /\ t.handler = "report"
                                /\ <<k, CustomerRoom(parcel[ev.parcelId].customerId)>>
                                       \in rooms
                             \/ t.handler = "track" /\ t.socket = k]_vars

\* Created by c1 and assigned to g1 by the admin, all of it recorded; c1
\* subscribed before g1 had any position and then received the report of
\* {12.34, 56.78, on_delivery}.
C15_Witness ==
    /\ parcel["p1"] = [status |-> "assigned", customerId |-> "c1"]
    /\ agentOf("p1") = "g1"
    /\ Len(parcelActivity) = 1
    /\ \E k \in SocketIds :
          /\ socket[k].userId = "c1"
          /\ outbox[k] =
                <<TrackingEvent("tracking:started", "p1", "Real-time tracking started"),
                  [event |-> "parcel:location-update", parcelId |-> "p1",
                   latitude |-> 1234, longitude |-> 5678, status |-> "on_delivery"]>>

\* C16: a subscribe for a parcel owned by another customer is refused: the
\* connection joins no room and receives tracking:error, and neither a
\* snapshot nor tracking:started.
C16_ForeignParcelDenied ==
    [][\A t \in tasks :
          ( /\ t.handler = "track"
            /\ Ends(t)
            /\ parcel[t.parcelId] # NoParcel
            /\ parcel[t.parcelId].customerId # t.customerId ) =>
              /\ rooms' = rooms
              /\ \A ev \in Events(Received(t.socket)) : ev.event = "tracking:error"
              /\ socket[t.socket].state = "open" => Received(t.socket) # <<>>]_vars

\* Customer c2 asked to track the parcel of c1, which is assigned, and was
\* refused.
C16_Witness ==
    /\ parcel["p1"].customerId = "c1"
    /\ assignmentsOf("p1") # {}
    /\ \E k \in SocketIds :
          /\ socket[k].userId = "c2"
          /\ outbox[k] = <<TrackingEvent("tracking:error", "p1",
                                         "Parcel not found or access denied")>>
          /\ \A m \in rooms : m[1] # k

\* C17: a subscribe of the owner for a parcel that has no Assignment fails:
\* the connection joins no room and receives tracking:error ("not yet
\* assigned", or the failure of the query), and not tracking:started.
C17_NotYetAssigned ==
    [][\A t \in tasks :
          ( /\ t.handler = "track"
            /\ Ends(t)
            /\ parcel[t.parcelId] # NoParcel
            /\ parcel[t.parcelId].customerId = t.customerId
            /\ \A a \in parcelAssignment : a.parcelId # t.parcelId ) =>
              /\ rooms' = rooms
              /\ socket[t.socket].state = "open" =>
                    Received(t.socket) \in
                        {<<TrackingEvent("tracking:error", t.parcelId,
                                         "Parcel not yet assigned to an agent")>>,
                         <<TrackingEvent("tracking:error", t.parcelId,
                                         "Failed to start tracking")>>}]_vars

\* The owner asked to track the parcel, which is pending and has no
\* Assignment, and was told so.
C17_Witness ==
    /\ parcel["p1"] = [status |-> "pending", customerId |-> "c1"]
    /\ parcelAssignment = {}
    /\ \E k \in SocketIds :
          /\ socket[k].userId = "c1"
          /\ outbox[k] = <<TrackingEvent("tracking:error", "p1",
                                         "Parcel not yet assigned to an agent")>>
          /\ \A m \in rooms : m[1] # k

\* C18: a subscribe that emits tracking:started has joined the connection to
\* the room customer:<C>, and what the connection receives is the snapshot
\* of the stored position followed by tracking:started when the AgentLocation
\* of the assigned agent, as the handler read it, has status on_delivery, and
\* tracking:started alone otherwise.
C18_SubscribeSnapshot ==
    [][\A t \in tasks :
          ( /\ t.handler = "track"
            /\ Ends(t)
            /\ \E ev \in Events(Received(t.socket)) : ev.event = "tracking:started" ) =>
              LET loc == t.location
                  started == TrackingEvent("tracking:started", t.parcelId,
                                           "Real-time tracking started")
              IN  /\ <<t.socket, [kind |-> "customer", id |-> t.customerId]>> \in rooms'
                  /\ Received(t.socket) =
                        IF loc.status = "on_delivery"
                        THEN <<[event |-> "parcel:location-update",
                                parcelId |-> t.parcelId,
                                latitude |-> loc.latitude,
                                longitude |-> loc.longitude,
                                status |-> "on_delivery"], started>>
                        ELSE <<started>>]_vars

\* The owner subscribed while agent g1 was on delivery at {12.34, 56.78}: the
\* snapshot, then tracking:started.
C18_Witness ==
    /\ agentOf("p1") = "g1"
    /\ agentLocation["g1"] =
          [status |-> "on_delivery", latitude |-> 1234, longitude |-> 5678]
    /\ \E k \in SocketIds :
          /\ socket[k].userId = "c1"
          /\ <<k, CustomerRoom("c1")>> \in rooms
          /\ outbox[k] =
                <<[event |-> "parcel:location-update", parcelId |-> "p1",
                   latitude |-> 1234, longitude |-> 5678, status |-> "on_delivery"],
                  TrackingEvent("tracking:started", "p1", "Real-time tracking started")>>

Acks == {"location:updated", "location:error"}

\* C19: the handler of a report answers the reporting connection exactly
\* once, with location:updated or location:error, when it ends and not
\* before; when the AgentLocation write fails the answer is location:error,
\* the row is unchanged and no parcel:location-update is emitted.
C19_OneAcknowledgment ==
    [][/\ \A t \in tasks :
              (t.handler = "report" /\ Resumes(t)) =>
                  /\ (Ends(t) /\ socket[t.socket].state = "open") =>
                        \E name \in Acks :
                            Received(t.socket) = <<Event(name, t.agentId)>>
                  /\ ~Ends(t) => Received(t.socket) = <<>>
                  /\ (Ends(t) /\ t.pc = "upsert") =>
                        /\ agentLocation' = agentLocation
                        /\ NoLocationEvent
                        /\ \A ev \in Events(Received(t.socket)) :
                              ev.event = "location:error"
       /\ \A k \in SocketIds :
              \A ev \in Events(Received(k)) :
                  ev.event \in Acks =>
                      \E t \in tasks : t.handler = "report" /\ t.socket = k /\ Ends(t)]_vars

\* The write of a report of g1 failed: g1 was answered location:error, has
\* no AgentLocation row, and the subscribed owner of its parcel received
\* tracking:started and nothing after it.
C19_Witness ==
    /\ agentLocation["g1"] = NoLocation
    /\ parcel["p1"].status = "assigned"
    /\ agentOf("p1") = "g1"
    /\ tasks = {}
    /\ \E k, c \in SocketIds :
          /\ socket[k].userId = "g1"
          /\ outbox[k] = <<Event("location:error", "g1")>>
          /\ <<c, CustomerRoom("c1")>> \in rooms
          /\ outbox[c] = <<TrackingEvent("tracking:started", "p1",
                                         "Real-time tracking started")>>

\* C20: the answer to a report is independent of fan-out: once the
\* AgentLocation write and the query for the parcels have succeeded, the
\* handler answers location:updated whatever happens to the emits, and leaves
\* the row as written.
C20_AckIndependentOfFanOut ==
    [][\A t \in tasks :
          (t.handler = "report" /\ t.pc = "broadcast" /\ Ends(t)) =>
              /\ agentLocation' = agentLocation
              /\ socket[t.socket].state = "open" =>
                    Received(t.socket) = <<Event("location:updated", t.agentId)>>]_vars

(***************************************************************************)
(* Properties of the default status, of the invariants between the tables  *)
(* and the presence maps, and of the disconnect handler.                   *)
(***************************************************************************)
\* C21: a report that carries no status stores status on_delivery when the
\* agent already has an AgentLocation row, and status available when the row
\* is created by this report.
C21_DefaultStatusByRow ==
    [][\A t \in tasks :
          ( /\ t.handler = "report"
            /\ t.pc = "upsert"
            /\ t.data.status = NoStatus
            /\ Resumes(t)
            /\ \E u \in tasks' : u.socket = t.socket /\ u.pc = "findMany" ) =>
              agentLocation'[t.agentId].status =
                  IF agentLocation[t.agentId] = NoLocation
                  THEN "available" ELSE "on_delivery"]_vars

\* C24: once a subscribe of the owner has emitted tracking:started, the
\* reports of the assigned agent have all been answered location:updated and
\* no handler is in flight, the subscriber has received the position stored
\* for the agent when that position has status on_delivery, as the snapshot
\* or as a broadcast.
C24_ReadAfterSubscribe ==
    \A c \in SocketIds, a \in SocketIds, p \in DOMAIN parcel :
        ( /\ tasks = {}
          /\ socket[c].state = "open"
          /\ socket[a].state = "open"
          /\ parcel[p] # NoParcel
          /\ parcel[p].status \in {"assigned", "picked_up", "in_transit"}
          /\ parcel[p].customerId = socket[c].userId
          /\ agentOf(p) = socket[a].userId
          /\ outbox[a] # <<>>
          /\ \A i \in DOMAIN outbox[a] : outbox[a][i].event = "location:updated"
          /\ \E i \in DOMAIN outbox[c] :
                /\ outbox[c][i].event = "tracking:started"
                /\ outbox[c][i].parcelId = p
          /\ agentLocation[agentOf(p)].status = "on_delivery" ) =>
            \E i \in DOMAIN outbox[c] :
                /\ outbox[c][i].event = "parcel:location-update"
                /\ outbox[c][i].parcelId = p
                /\ outbox[c][i].latitude = agentLocation[agentOf(p)].latitude
                /\ outbox[c][i].longitude = agentLocation[agentOf(p)].longitude
                /\ outbox[c][i].status = "on_delivery"

\* C27: a parcel whose status is assigned, picked_up or in_transit has an
\* Assignment row.
C27_LiveParcelHasAssignment ==
    \A p \in DOMAIN parcel :
        ( /\ parcel[p] # NoParcel
          /\ parcel[p].status \in {"assigned", "picked_up", "in_transit"} ) =>
            \E a \in parcelAssignment : a.parcelId = p

\* C28: the two presence maps are inverse to each other: connectedAgents
\* maps agent A to connection c exactly when agentSockets maps c to A.
C28_PresenceMapsInverse ==
    \A g \in Agents, k \in SocketIds :
        (g \in DOMAIN connectedAgents /\ connectedAgents[g] = k)
            <=> (k \in DOMAIN agentSockets /\ agentSockets[k] = g)

\* C30: the handler of the disconnect of a registered agent that has no
\* AgentLocation row completes normally: no unhandled error is raised that
\* terminates the process.
C30_DisconnectWithoutRow ==
    [][\A t \in tasks :
          ( /\ t.handler = "disconnect"
            /\ Resumes(t)
            /\ agentLocation[t.agentId] = NoLocation ) =>
              ~crashed']_vars

\* C26: under concurrent status updates of the same parcel, every committed
\* change of the status from s to s2 is a transition the table allows for the
\* acting role from s, the status the parcel had immediately before the
\* write.
C26_TransitionFromCurrentStatus ==
    [][\A s \in DOMAIN http :
          ( /\ http[s].kind = "status"
            /\ http[s].pc = "update"
            /\ http'[s] = Idle
            /\ parcel'[http[s].parcelId].status # parcel[http[s].parcelId].status ) =>
              parcel'[http[s].parcelId].status \in
                  getValidStatusTransitions(parcel[http[s].parcelId].status,
                                            http[s].userRole)]_vars

(***************************************************************************)
(* Properties of the fan-out to the customers.                             *)
(***************************************************************************)
\* C22: a connection authenticated as customer C receives
\* parcel:location-update events only for parcels whose owning customer is C.
C22_OnlyOwnParcels ==
    \A k \in SocketIds :
        (socket[k].state = "open" /\ socket[k].userRole = "customer") =>
            \A i \in DOMAIN outbox[k] :
                outbox[k][i].event = "parcel:location-update" =>
                    parcel[outbox[k][i].parcelId].customerId = socket[k].userId

\* Agent g1 carries p1 of customer c1 and p2 of customer c2, both live; c2
\* subscribed to p2 and a report of g1 was broadcast for both parcels: c2
\* received the event of p2 and nothing of p1.
C22_Witness ==
    /\ parcel["p1"] = [status |-> "assigned", customerId |-> "c1"]
    /\ parcel["p2"] = [status |-> "assigned", customerId |-> "c2"]
    /\ agentOf("p1") = "g1"
    /\ agentOf("p2") = "g1"
    /\ \E k, a \in SocketIds :
          /\ socket[k].userId = "c2"
          /\ socket[a].userId = "g1"
          /\ outbox[a] = <<Event("location:updated", "g1")>>
          /\ outbox[k] =
                <<TrackingEvent("tracking:started", "p2", "Real-time tracking started"),
                  [event |-> "parcel:location-update", parcelId |-> "p2",
                   latitude |-> 1234, longitude |-> 5678, status |-> "on_delivery"]>>

\* C23: subscription is per parcel: a customer connection receives
\* parcel:location-update only for a parcel it asked to track, and none for
\* the other live parcels of the same customer.
C23_PerParcelSubscription ==
    \A k \in SocketIds :
        (socket[k].state = "open" /\ socket[k].userRole = "customer") =>
            \A i \in DOMAIN outbox[k] :
                outbox[k][i].event = "parcel:location-update" =>
                    \E j \in DOMAIN outbox[k] :
                        /\ outbox[k][j].event = "tracking:started"
                        /\ outbox[k][j].parcelId = outbox[k][i].parcelId

(***************************************************************************)
(* Properties of the order of handlers on one connection.                  *)
(***************************************************************************)
\* C25: two reports r1 then r2 sent on the same agent connection are
\* processed in arrival order: after both have been answered location:updated
\* the AgentLocation row holds the position of r2, and a subscribed customer
\* that received both events received the event of r1 before that of r2.
C25_ReportsInArrivalOrder ==
    \A k \in SocketIds :
        ( /\ socket[k].userRole = "agent"
          /\ \A j \in SocketIds \ {k} : socket[j].userRole # "agent"
          /\ tasks = {}
          /\ outbox[k] = <<Event("location:updated", socket[k].userId),
                           Event("location:updated", socket[k].userId)>> ) =>
            /\ agentLocation[socket[k].userId].latitude = Path[2].latitude
            /\ agentLocation[socket[k].userId].longitude = Path[2].longitude
            /\ \A c \in SocketIds, i, j \in 1..4 :
                  ( /\ socket[c].userRole = "customer"
                    /\ i \in DOMAIN outbox[c]
                    /\ j \in DOMAIN outbox[c]
                    /\ outbox[c][i] = LocationEvent("p1", Path[1])
                    /\ outbox[c][j] = LocationEvent("p1", Path[2]) ) => i < j

\* C29: once the disconnects of the registered connections of agent g1 have
\* been handled and every handler started on them has finished, the
\* AgentLocation status of g1 is available, also when a report with status
\* on_delivery was in flight at the time of the disconnect.
C29_AvailableAfterDisconnect ==
    ( /\ tasks = {}
      /\ ~crashed
      /\ \A k \in SocketIds : socket[k].state # "open" ) =>
        agentLocation["g1"].status = "available"

====
